---- MODULE Spec2Model ----
(***************************************************************************)
(* Model of MiTermometerPVVX: the BLE scan callback of main.py (device     *)
(* registration, sequence-change detection, field extraction, elapsed      *)
(* duration) and the print sinks and console windows of outputs.py.        *)
(***************************************************************************)
EXTENDS Integers, Sequences, FiniteSets, TLC

(***************************************************************************)
(* Bounds of the model.                                                    *)
(***************************************************************************)
\* the clock is counted in quarter seconds and stops at MaxTime
MaxTime == 3

\* the strings enqueued on the asynchronous sink in one run
MaxEnqueued == 3

\* the close() calls made on the asynchronous sink in one run
MaxClose == 2

\* the largest argument of clear_lines
MaxLines == 2

\* the largest width and height of a console window
MaxWidth == 3

MaxHeight == 3

\* the largest terminal, in columns and rows
MaxCols == 6

MaxRows == 4

\* the largest explicit id add_window is called with
MaxId == 3

\* how often each coroutine enters its critical section
MaxRounds == 2

\* quarter seconds in one second (the unit of the model clock)
TicksPerSecond == 4

(***************************************************************************)
(* Python values.                                                          *)
(***************************************************************************)
\* an optional string: None, or a string kept as a sequence of chunks
None == [some |-> FALSE, v |-> <<>>]

Some(s) == [some |-> TRUE, v |-> s]

\* Python truthiness of an optional string: None and "" are falsy
Truthy(name) == name.some /\ name.v # <<>>

\* b[lo:hi] of Python, 0-based and half open, clipped to the length of b
Slice(b, lo, hi) ==
    LET h == IF hi < Len(b) THEN hi ELSE Len(b)
    IN  IF lo >= h THEN <<>> ELSE SubSeq(b, lo + 1, h)

RECURSIVE Pow256(_)
Pow256(n) == IF n = 0 THEN 1 ELSE 256 * Pow256(n - 1)

RECURSIVE BigEndian(_)
\* LittleEndian with the byte order reversed (byteorder="big")
BigEndian(b) ==
    IF b = <<>> THEN 0
    ELSE b[Len(b)] + 256 * BigEndian(SubSeq(b, 1, Len(b) - 1))

RECURSIVE LittleEndian(_)
\* the unsigned value of a byte string, least significant byte first
LittleEndian(b) == IF b = <<>> THEN 0 ELSE Head(b) + 256 * LittleEndian(Tail(b))

\* from_bytes that ignores signed=True
from_bytes_unsigned(b, signed) == LittleEndian(b)

\* int.from_bytes(b, byteorder="little", signed=signed)
from_bytes(b, signed) ==
    LET u == LittleEndian(b)
    IN  IF signed /\ Len(b) > 0 /\ 2 * u >= Pow256(Len(b))
        THEN u - Pow256(Len(b))
        ELSE u

\* round replaced by int(): the fraction of a second is cut off
round_down(q) == q \div TicksPerSecond

\* round() of Python on a non-negative number of quarter seconds: to the
\* nearest whole second, a tie going to the even one
round(q) ==
    LET whole == q \div TicksPerSecond
        rest  == q % TicksPerSecond
    IN  IF 2 * rest < TicksPerSecond THEN whole
        ELSE IF 2 * rest > TicksPerSecond THEN whole + 1
        ELSE IF whole % 2 = 0 THEN whole ELSE whole + 1

(***************************************************************************)
(* Inputs of the scan callback.                                            *)
(***************************************************************************)
\* BLE addresses, as their six octets
Address == { <<"A4", "C1", "38", "00", "99", "5B">>,
             <<"A4", "C1", "38", "00", "DB", "77">> }

\* advertising_data.local_name
LocalName == { None, Some(<<"LYWSD03MMC">>) }

Rssi == { -70 }

\* an ATC payload: 6 header bytes, then temperature, humidity, battery mV
\* (16 bits each, little endian), battery percent and the sequence byte
Header == <<6, 0, 120, 120, 120, 9>>

Payload(tlo, thi, hlo, hhi, vlo, vhi, bat, seq) ==
    Header \o <<tlo, thi, hlo, hhi, vlo, vhi, bat, seq>>

\* service_data.get(ATC_SERVICE) of the advertisements of the scan: absent
\* or empty, cut short, complete, and with a trailing flag byte
ScanPayload ==
    { <<>>,
      SubSeq(Payload(100, 0, 128, 25, 228, 13, 60, 1), 1, 7),
      Payload(100, 0, 128, 25, 228, 13, 60, 0),
      Payload(156, 255, 128, 25, 228, 13, 200, 255) \o <<5>> }

AdvertisementData ==
    [local_name : LocalName, service_data : ScanPayload, rssi : Rssi]

\* the payloads the field extraction is checked on: every combination of
\* the sample bytes at offsets 6..13, behind two different headers and in
\* front of zero, one or two trailing bytes
LowByte == {0, 156, 255}

HighByte == {0, 127, 128, 255}

PercentByte == {0, 100, 101, 255}

DecodePayload ==
    { h \o <<tlo, thi, hlo, hhi, vlo, vhi, bat, seq>> \o t :
        h \in {Header, <<255, 255, 255, 255, 255, 255>>},
        tlo \in LowByte, thi \in HighByte, hlo \in LowByte, hhi \in HighByte,
        vlo \in {228}, vhi \in {13, 255}, bat \in PercentByte, seq \in {0, 255},
        t \in {<<>>, <<5>>, <<255, 255>>} }

DecodeAdvertisementData ==
    [local_name : {None}, service_data : DecodePayload, rssi : Rssi]

VARIABLES
    atc_counters,   \* address -> sequence byte of its last update
    atc_date,       \* address -> time of its last update
    atc_devices,    \* address -> [name, id]
    now,            \* datetime.datetime.now(), in quarter seconds
    event,          \* the advertisement the callback handled last
    reading,        \* the locals of the last update of the callback
    lines,          \* what the last callback printed
    print_queue,    \* ConsolePrintAsync.print_queue
    worker_done,    \* ConsolePrintAsync.worker_task has finished
    written,        \* what print_worker has printed, in order
    enqueued,       \* the strings put on print_queue, in order
    close_pc,       \* where each close() call stands
    close_mark,     \* how many strings were enqueued when close() was called
    window,         \* a consoleWindow
    printed,        \* what the window handed to its print sink last
    manager,        \* a consoleWindows: x, y, gap_x, gap_y, cols, rows
    windows,        \* consoleWindows.windows: id -> consoleWindow
    cell,           \* the width and height add_window is called with
    added,          \* how the last add_window call ended
    sink,           \* the print sink the coroutines share: class and _lock
    locks,          \* the asyncio.Lock objects made so far: id -> locked
    coro            \* where each coroutine stands

scan_vars == <<atc_counters, atc_date, atc_devices, now, event, reading, lines>>

sink_vars == <<print_queue, worker_done, written, enqueued, close_pc, close_mark>>

window_vars == <<window, printed>>

grid_vars == <<manager, windows, cell, added>>

lock_vars == <<sink, locks, coro>>

vars == <<scan_vars, sink_vars, window_vars, grid_vars, lock_vars>>

\* a dict of Python: a function on the keys it holds
EmptyDict == <<>>

\* d.get(k), as the set of the values found: empty for None
Get(d, k) == IF k \in DOMAIN d THEN {d[k]} ELSE {}

Update(d, k, v) == [x \in (DOMAIN d) \cup {k} |-> IF x = k THEN v ELSE d[x]]

NoEvent == [device |-> <<>>, local_name |-> None, service_data |-> <<>>, rssi |-> 0]

NoReading == [updated |-> FALSE]

(***************************************************************************)
(* main.py: the scan callback.                                             *)
(***************************************************************************)
\* a duration: the int 0 that stands for "no previous update", or a
\* datetime.timedelta of whole seconds; both are falsy when zero
NoDuration == [kind |-> "int", seconds |-> 0]

timedelta(s) == [kind |-> "timedelta", seconds |-> s]

DurationTruthy(d) == d.seconds # 0

\* "ATC-" + "".join(device.address.split(":")[-2:])
SyntheticName(address) == Some(<<"ATC-", address[5], address[6]>>)

\* Register without the test of line 45: every advertisement registers
RegisterAlways(devices, address, name) ==
    Update(devices, address, [name |-> name, id |-> Cardinality(DOMAIN devices)])

\* lines 45-48: a new address gets the next id and the advertised name
Register(devices, address, name) ==
    IF address \notin DOMAIN devices
    THEN Update(devices, address, [name |-> name, id |-> Cardinality(DOMAIN devices)])
    ELSE devices

\* ResolveName that also stores an advertised name
ResolveNameStoring(devices, address, name) ==
    IF Truthy(name)
    THEN [name |-> name, devices |-> [devices EXCEPT ![address].name = name]]
    ELSE IF Truthy(devices[address].name)
         THEN [name |-> devices[address].name, devices |-> devices]
         ELSE [name |-> SyntheticName(address),
               devices |-> [devices EXCEPT ![address].name = SyntheticName(address)]]

\* lines 50-54: the name to show, and the devices after a synthetic name
\* has been stored for a device that has none
ResolveName(devices, address, name) ==
    IF Truthy(name) THEN [name |-> name, devices |-> devices]
    ELSE IF Truthy(devices[address].name)
         THEN [name |-> devices[address].name, devices |-> devices]
         ELSE [name |-> SyntheticName(address),
               devices |-> [devices EXCEPT ![address].name = SyntheticName(address)]]

\* SequenceChanged with > in place of !=: a wrap-around is no change
SequenceIncreased(counters, address, count) ==
    address \notin DOMAIN counters \/ counters[address] < count

\* line 63: atc_counters.get(device.address) != count
SequenceChanged(counters, address, count) ==
    address \notin DOMAIN counters \/ counters[address] # count

\* lines 66-73: the rounded time since the previous update, or the int 0
DateDiff(dates, address, date_now) ==
    IF address \in DOMAIN dates
    THEN timedelta(round(date_now - dates[address]))
    ELSE NoDuration

\* lines 61, 75-88: the fields of the payload; temp and humidity are kept
\* as the hundredths that line 86-87 divide by 100.0, battery_v as the
\* millivolts that line 88 divides by 1000.0
Decode(adv_atc) ==
    [ count     |-> from_bytes(Slice(adv_atc, 13, 14), FALSE),
      temp      |-> from_bytes(Slice(adv_atc, 6, 8), TRUE),
      humidity  |-> from_bytes(Slice(adv_atc, 8, 10), TRUE),
      battery_v |-> from_bytes(Slice(adv_atc, 10, 12), FALSE),
      battery   |-> from_bytes(Slice(adv_atc, 12, 13), FALSE) ]

\* lines 92-100: where the panel of a device is printed
PanelPos(id) == [x |-> (12 + 8 + 15) * (id % 4), y |-> (10 + 3) * (id \div 4) + 1]

\* lines 103-119: the labels of the lines print_text writes on an update
UpdateLines(date_diff) ==
    <<"device:", "----", "temp:", "humidity:", "batteryv:", "battery:",
      "rssi:", "count:", "time now:">>
    \o (IF DurationTruthy(date_diff) THEN <<"Duration:">> ELSE <<>>)

\* lines 33-119: callback(device, advertising_data)
callback(device, advertising_data) ==
    LET adv_atc  == advertising_data.service_data
        name     == advertising_data.local_name
        first    == atc_devices = EmptyDict
        devs     == Register(atc_devices, device, name)
        resolved == ResolveName(devs, device, name)
        fields   == Decode(adv_atc)
        date_diff == DateDiff(atc_date, device, now)
        cleared  == IF device \notin DOMAIN atc_devices /\ first
                    THEN <<"cls">> ELSE <<>>
    IN  /\ event' = [device |-> device, local_name |-> name,
                     service_data |-> adv_atc, rssi |-> advertising_data.rssi]
        /\ IF adv_atc = <<>>
           THEN /\ reading' = NoReading
                /\ lines' = <<>>
                /\ UNCHANGED <<atc_counters, atc_date, atc_devices>>
           ELSE /\ atc_devices' = resolved.devices
                /\ IF SequenceChanged(atc_counters, device, fields.count)
                   THEN /\ atc_counters' = Update(atc_counters, device, fields.count)
                        /\ atc_date' = Update(atc_date, device, now)
                        /\ reading' = [ updated   |-> TRUE,
                                        stored    |-> Get(atc_counters, device),
                                        name      |-> resolved.name,
                                        id        |-> resolved.devices[device].id,
                                        pos       |-> PanelPos(resolved.devices[device].id),
                                        rssi      |-> advertising_data.rssi,
                                        count     |-> fields.count,
                                        temp      |-> fields.temp,
                                        humidity  |-> fields.humidity,
                                        battery_v |-> fields.battery_v,
                                        battery   |-> fields.battery,
                                        date_now  |-> now,
                                        date_diff |-> date_diff ]
                        /\ lines' = cleared \o UpdateLines(date_diff)
                   ELSE /\ reading' = NoReading
                        /\ lines' = cleared
                        /\ UNCHANGED <<atc_counters, atc_date>>
        /\ UNCHANGED now
        /\ UNCHANGED <<sink_vars, window_vars, grid_vars, lock_vars>>

\* the transport delivers one advertisement to the callback
Scan == \E device \in Address, advertising_data \in AdvertisementData :
            callback(device, advertising_data)

\* time passes between two advertisements
Tick == /\ now < MaxTime
        /\ now' = now + 1
        /\ UNCHANGED <<atc_counters, atc_date, atc_devices, event, reading, lines>>
        /\ UNCHANGED <<sink_vars, window_vars, grid_vars, lock_vars>>

\* main(), lines 14-18: the dicts start empty
ScanInit ==
    /\ atc_counters = EmptyDict
    /\ atc_date = EmptyDict
    /\ atc_devices = EmptyDict
    /\ now = 0
    /\ event = NoEvent
    /\ reading = NoReading
    /\ lines = <<>>

(***************************************************************************)
(* outputs.py: ConsolePrint and ConsolePrintAsync.                         *)
(***************************************************************************)
CLEAR_SCREEN == "\\033c\\033[3J"

CLEAR_LINE == "\\033[K"

\* a string handed to print: its text, behind the cursor address
\* "\033[{y};{x}H" when at is <<y, x>> and bare when at is <<>>
Plain(text) == [at |-> <<>>, text |-> text]

\* the exit signal None of the queue
ExitSignal == [exit |-> TRUE]

\* ConsolePrint.format_text(text, pos); pos is {} for None or {[x, y]}
format_text(text, pos) ==
    IF pos # {}
    THEN LET p == CHOOSE q \in pos : TRUE IN [at |-> <<p.y, p.x>>, text |-> text]
    ELSE Plain(text)

\* put with the item placed at the head of the queue
put_front(queue, item) == <<item>> \o queue

\* asyncio.Queue.put of an unbounded queue: appends and never waits
put(queue, item) == Append(queue, item)

RECURSIVE put_times(_, _, _)
\* the loop of clear_lines: lines times put(item)
put_times(queue, item, times) ==
    IF times <= 0 THEN queue ELSE put_times(put(queue, item), item, times - 1)

Repeat(item, times) == [i \in 1..times |-> item]

\* the texts and positions the producers print
Text == {"a", "b"}

Position == { {}, {[x |-> 3, y |-> 1]} }

CloseCall == 1..MaxClose

\* async_print(item), times in a row without a suspension in between (the
\* put of an unbounded queue does not wait): the string goes on the queue
async_print(item, times) ==
    /\ Len(enqueued) + times <= MaxEnqueued
    /\ print_queue' = put_times(print_queue, item, times)
    /\ enqueued' = enqueued \o Repeat(item, times)
    /\ UNCHANGED <<worker_done, written, close_pc, close_mark>>
    /\ UNCHANGED <<scan_vars, window_vars, grid_vars, lock_vars>>

\* ConsolePrintAsync.print_value(text, pos)
print_value == \E text \in Text, pos \in Position :
                   async_print(format_text(text, pos), 1)

\* ConsolePrintAsync.clear()
clear == async_print(Plain(CLEAR_SCREEN), 1)

\* ConsolePrintAsync.clear_lines(lines)
clear_lines == \E n \in 0..MaxLines : async_print(Plain(CLEAR_LINE), n)

\* one turn of the loop of print_worker: get a message, stop at the exit
\* signal, print anything else; any other coroutine may run between two
\* turns
print_worker ==
    /\ ~worker_done
    /\ print_queue # <<>>
    /\ LET message == Head(print_queue)
       IN  /\ print_queue' = Tail(print_queue)
           /\ IF message = ExitSignal
              THEN worker_done' = TRUE /\ UNCHANGED written
              ELSE written' = Append(written, message) /\ UNCHANGED worker_done
    /\ UNCHANGED <<enqueued, close_pc, close_mark>>
    /\ UNCHANGED <<scan_vars, window_vars, grid_vars, lock_vars>>

\* close(), line 246: the exit signal is put on the queue
close_put(c) ==
    /\ close_pc[c] = "idle"
    /\ print_queue' = put(print_queue, ExitSignal)
    /\ close_pc' = [close_pc EXCEPT ![c] = "await worker_task"]
    /\ close_mark' = [close_mark EXCEPT ![c] = Len(enqueued)]
    /\ UNCHANGED <<worker_done, written, enqueued>>
    /\ UNCHANGED <<scan_vars, window_vars, grid_vars, lock_vars>>

\* close_return without the await of the worker task
close_return_at_once(c) ==
    /\ close_pc[c] = "await worker_task"
    /\ close_pc' = [close_pc EXCEPT ![c] = "returned"]
    /\ UNCHANGED <<print_queue, worker_done, written, enqueued, close_mark>>
    /\ UNCHANGED <<scan_vars, window_vars, grid_vars, lock_vars>>

\* close(), line 247: the await ends once the worker task has finished
close_return(c) ==
    /\ close_pc[c] = "await worker_task"
    /\ worker_done
    /\ close_pc' = [close_pc EXCEPT ![c] = "returned"]
    /\ UNCHANGED <<print_queue, worker_done, written, enqueued, close_mark>>
    /\ UNCHANGED <<scan_vars, window_vars, grid_vars, lock_vars>>

close_call == \E c \in CloseCall : close_put(c)

close_done == \E c \in CloseCall : close_return(c)

\* ConsolePrintAsync.__init__: an empty queue and a running worker
SinkInit ==
    /\ print_queue = <<>>
    /\ worker_done = FALSE
    /\ written = <<>>
    /\ enqueued = <<>>
    /\ close_pc = [c \in CloseCall |-> "idle"]
    /\ close_mark = [c \in CloseCall |-> 0]

NextSink == print_value \/ clear \/ clear_lines \/ print_worker
            \/ close_call \/ close_done

(***************************************************************************)
(* outputs.py: consoleWindow.                                              *)
(***************************************************************************)
Min(a, b) == IF a < b THEN a ELSE b

Max(a, b) == IF a > b THEN a ELSE b

\* consoleWindow.__init__
consoleWindow(id, width, height, x, y) ==
    [id |-> id, width |-> width, height |-> height, x |-> x, y |-> y,
     pos |-> [x |-> 0, y |-> 0], line_height |-> 1]

\* clip_window_pos that clips to width and height, not to one less
clip_window_pos_wide(self, pos) ==
    LET p == IF pos = {} THEN self.pos ELSE CHOOSE q \in pos : TRUE
    IN  [x |-> Max(0, Min(p.x, self.width)),
         y |-> Max(0, Min(p.y, self.height))]

\* clip_window_pos(pos); pos is {} for None or {[x, y]}
clip_window_pos(self, pos) ==
    LET p == IF pos = {} THEN self.pos ELSE CHOOSE q \in pos : TRUE
    IN  [x |-> Max(0, Min(p.x, self.width - 1)),
         y |-> Max(0, Min(p.y, self.height - 1))]

\* line_cr without the clipping of line 284
line_cr_unclipped(self) ==
    [self EXCEPT !.pos = [x |-> 0, y |-> self.pos.y + self.line_height]]

\* line_cr()
line_cr(self) ==
    LET moved == [self EXCEPT !.pos = [x |-> 0, y |-> self.pos.y + self.line_height]]
    IN  [moved EXCEPT !.pos = clip_window_pos(moved, {})]

\* the positions print_line is called with: None, and pairs in and around
\* the largest window
LinePosition ==
    { {} } \cup { {[x |-> px, y |-> py]} : px \in -1..MaxWidth + 1, py \in -1..MaxHeight + 1 }

\* print_line(text, pos) on a window that prints through ConsolePrint
print_line(text, pos) ==
    LET jumped == IF pos # {}
                  THEN [window EXCEPT !.pos = clip_window_pos(window, pos)]
                  ELSE window
        line   == [prefix |-> <<jumped.pos.x, jumped.pos.y>>, text |-> text]
    IN  /\ printed' = [called |-> TRUE, arg |-> pos,
                       value |-> format_text(line, {jumped.pos})]
        /\ window' = line_cr(jumped)
        /\ UNCHANGED <<scan_vars, sink_vars, grid_vars, lock_vars>>

PrintLine == \E pos \in LinePosition : print_line("line", pos)

NoPrint == [called |-> FALSE]

\* consoleWindow(): the default window, 21 by 10 at the origin
WindowInit ==
    /\ window = consoleWindow(0, 21, 10, 0, 0)
    /\ printed = NoPrint

\* a window of any size from 1 by 1 to MaxWidth by MaxHeight
WindowInitAny ==
    /\ window \in { consoleWindow(0, width, height, x, y) :
                      width \in 1..MaxWidth, height \in 1..MaxHeight,
                      x \in {0, 30}, y \in {0, 5} }
    /\ printed = NoPrint

NextWindow == PrintLine

(***************************************************************************)
(* outputs.py: consoleWindows.                                             *)
(***************************************************************************)
\* consoleWindows.__init__(x, y, gap_x, gap_y) in a terminal of cols by rows
consoleWindows(x, y, gap_x, gap_y, cols, rows) ==
    [x |-> x, y |-> y, gap_x |-> gap_x, gap_y |-> gap_y, cols |-> cols, rows |-> rows]

SetMax(S) == CHOOSE m \in S : \A n \in S : n <= m

\* lines 320-325: the id of the new window; id is {} for None or {n}
next_id(ids, id) ==
    IF id # {} THEN CHOOSE n \in id : TRUE
    ELSE IF ids = {} THEN 0 ELSE SetMax(ids) + 1

\* lines 326-327: the windows that fit side by side and one above the other
x_max_windows(self, width) == self.cols \div (self.x + width + self.gap_x)

y_max_windows(self, height) == self.rows \div (self.y + height + self.gap_y)

\* lines 313-340: add_window(id, width, height)
add_window(id, width, height) ==
    LET new_id  == next_id(DOMAIN windows, id)
        x_max   == x_max_windows(manager, width)
        y_max   == y_max_windows(manager, height)
        call    == [called |-> TRUE, arg |-> id, id |-> new_id,
                    held |-> Cardinality(DOMAIN windows)]
    IN  /\ IF new_id > x_max * y_max
           THEN /\ added' = call @@ [raised |-> "ValueError"]
                /\ UNCHANGED windows
           ELSE IF x_max = 0
           THEN /\ added' = call @@ [raised |-> "ZeroDivisionError"]
                /\ UNCHANGED windows
           ELSE LET window_row == new_id \div x_max
                    window_col == new_id % x_max
                    x == manager.x + width * window_row + manager.gap_x
                    y == manager.y + height * window_col + manager.gap_y
                IN  /\ added' = call @@ [raised |-> "nothing"]
                    /\ windows' = Update(windows, new_id,
                                         consoleWindow(new_id, width, height, x, y))
        /\ UNCHANGED <<manager, cell>>
        /\ UNCHANGED <<scan_vars, sink_vars, window_vars, lock_vars>>

\* add_window(width=..., height=...) with the id left out
AddWindow == add_window({}, cell.width, cell.height)

\* add_window(id, width=..., height=...)
AddWindowId == \E n \in -1..MaxId : add_window({n}, cell.width, cell.height)

NotAdded == [called |-> FALSE]

\* consoleWindows() with its defaults in a terminal of 80 by 24
GridInit ==
    /\ manager = consoleWindows(0, 0, 9, 0, 80, 24)
    /\ windows = EmptyDict
    /\ cell = [width |-> 21, height |-> 5]
    /\ added = NotAdded

\* a manager at the origin in a terminal of any size up to MaxCols by
\* MaxRows, and the one window size of all its add_window calls
GridInitAny ==
    /\ manager \in { consoleWindows(0, 0, gap_x, gap_y, cols, rows) :
                       gap_x \in {0, 1}, gap_y \in {0},
                       cols \in 1..MaxCols, rows \in 1..MaxRows }
    /\ windows = EmptyDict
    /\ cell \in [width : 1..MaxWidth, height : 1..MaxHeight]
    /\ added = NotAdded

NextGrid == AddWindow

NextGridId == AddWindow \/ AddWindowId

(***************************************************************************)
(* outputs.py: the lock property of the print sinks.                       *)
(***************************************************************************)
\* ConsolePrint(lock): __init__ does not keep its lock argument
ConsolePrint(lock) == [class |-> "ConsolePrint", _lock |-> {}]

\* ConsolePrintAsync(lock): line 153 keeps it; lock is {} for None or {id}
ConsolePrintAsync(lock) == [class |-> "ConsolePrintAsync", _lock |-> lock]

\* the lock property: the id of the asyncio.Lock it returns, a new one
\* (the next free id) unless the asynchronous sink was given a lock
lock(self, made) ==
    IF self.class = "ConsolePrintAsync" /\ self._lock # {}
    THEN CHOOSE id \in self._lock : TRUE
    ELSE Len(made) + 1

Coroutine == {1, 2}

\* "async with sink.lock:" is reached: the property is read and the lock
\* it returns is taken when free and waited for when not
lock_enter(c) ==
    /\ coro[c].pc = "outside"
    /\ coro[c].rounds < MaxRounds
    /\ LET id   == lock(sink, locks)
           made == IF id > Len(locks) THEN Append(locks, FALSE) ELSE locks
       IN  IF made[id]
           THEN /\ locks' = made
                /\ coro' = [coro EXCEPT ![c].pc = "waiting", ![c].lock = id]
           ELSE /\ locks' = [made EXCEPT ![id] = TRUE]
                /\ coro' = [coro EXCEPT ![c].pc = "inside", ![c].lock = id]
    /\ UNCHANGED sink
    /\ UNCHANGED <<scan_vars, sink_vars, window_vars, grid_vars>>

\* Lock.acquire() returns to a waiting coroutine once the lock is free
lock_acquire(c) ==
    /\ coro[c].pc = "waiting"
    /\ ~locks[coro[c].lock]
    /\ locks' = [locks EXCEPT ![coro[c].lock] = TRUE]
    /\ coro' = [coro EXCEPT ![c].pc = "inside"]
    /\ UNCHANGED sink
    /\ UNCHANGED <<scan_vars, sink_vars, window_vars, grid_vars>>

\* the end of the "async with" block: the lock is released
lock_exit(c) ==
    /\ coro[c].pc = "inside"
    /\ locks' = [locks EXCEPT ![coro[c].lock] = FALSE]
    /\ coro' = [coro EXCEPT ![c].pc = "outside", ![c].rounds = @ + 1]
    /\ UNCHANGED sink
    /\ UNCHANGED <<scan_vars, sink_vars, window_vars, grid_vars>>

Enter == \E c \in Coroutine : lock_enter(c)

Acquire == \E c \in Coroutine : lock_acquire(c)

Exit == \E c \in Coroutine : lock_exit(c)

NoCoroutine == [c \in Coroutine |-> [pc |-> "outside", lock |-> 0, rounds |-> 0]]

\* ConsolePrintAsync() without a lock
LockInit ==
    /\ sink = ConsolePrintAsync({})
    /\ locks = <<>>
    /\ coro = NoCoroutine

\* either sink, made with a lock (the lock of id 1) or without
LockInitAny ==
    /\ \E passed \in { {}, {1} } :
          /\ sink \in { ConsolePrint(passed), ConsolePrintAsync(passed) }
          /\ locks = IF passed = {} THEN <<>> ELSE <<FALSE>>
    /\ coro = NoCoroutine

NextLock == Enter \/ Acquire \/ Exit

Init == ScanInit /\ SinkInit /\ WindowInit /\ GridInit /\ LockInit

Next == Scan \/ Tick

Spec == Init /\ [][Next]_vars

\* the field extraction alone: the first advertisement of one device,
\* its payload drawn from DecodePayload
ScanFirst ==
    /\ event = NoEvent
    /\ \E device \in Address, advertising_data \in DecodeAdvertisementData :
          callback(device, advertising_data)

NextDecode == ScanFirst

SpecDecode == Init /\ [][NextDecode]_vars

\* the asynchronous sink: producers, the worker and the close() calls
SpecSink == Init /\ [][NextSink]_vars

\* one console window
InitWindow == ScanInit /\ SinkInit /\ WindowInitAny /\ GridInit /\ LockInit

SpecWindow == InitWindow /\ [][NextWindow]_vars

\* the asynchronous sink with a worker task that the event loop keeps
\* running while it has something to get
SpecSinkFair == Init /\ [][NextSink]_vars /\ WF_vars(print_worker)

\* the window manager, called without ids
InitGrid == ScanInit /\ SinkInit /\ WindowInit /\ GridInitAny /\ LockInit

SpecGrid == InitGrid /\ [][NextGrid]_vars

\* the window manager, called with and without ids
SpecGridId == InitGrid /\ [][NextGridId]_vars

\* two coroutines that print inside "async with sink.lock"
InitLock == ScanInit /\ SinkInit /\ WindowInit /\ GridInit /\ LockInitAny

SpecLock == InitLock /\ [][NextLock]_vars

(***************************************************************************)
(* Properties of the scan callback.                                        *)
(***************************************************************************)
\* the step delivers the advertisement that event' records to the callback
Delivered ==
    callback(event'.device,
             [local_name |-> event'.local_name,
              service_data |-> event'.service_data,
              rssi |-> event'.rssi])

Range(f) == {f[i] : i \in DOMAIN f}

Signed16(lo, hi) == IF hi >= 128 THEN lo + 256 * hi - 65536 ELSE lo + 256 * hi

\* C3: an advertisement whose ATC service data has fewer than 14 bytes is
\* dropped: nothing is decoded, the stored sequence counter and the
\* last-seen time of the device stay as they are, nothing is rendered.
C3_ShortPayloadDropped ==
    [][ (Delivered /\ Len(event'.service_data) < 14)
        => /\ atc_counters' = atc_counters
           /\ atc_date' = atc_date
           /\ reading' = NoReading
           /\ lines' = <<>> ]_vars

\* C4: a decodable advertisement (14 bytes or more) produces an update,
\* storing the sequence and rendering, exactly when its sequence byte
\* differs from the sequence stored for the address; no stored sequence
\* and the wrap-around from 255 to 0 are changes.
C4_UpdateIffSequenceDiffers ==
    [][ (Delivered /\ Len(event'.service_data) >= 14)
        => LET d   == event'.device
               seq == event'.service_data[14]
               differs == d \notin DOMAIN atc_counters \/ atc_counters[d] # seq
           IN  /\ reading'.updated = differs
               /\ differs => /\ atc_counters'[d] = seq
                             /\ "count:" \in Range(lines')
               /\ ~differs => /\ atc_counters' = atc_counters
                              /\ lines' = <<>> ]_vars

\* an update whose sequence byte wrapped around from 255 to 0
C4_Witness ==
    /\ reading.updated
    /\ Len(event.service_data) >= 14
    /\ reading.stored = {255}
    /\ reading.count = 0
    /\ "count:" \in Range(lines)

\* C5: an advertisement whose sequence byte equals the sequence stored for
\* its address leaves the stored sequence, the last-seen time, the slot id
\* and the stored name unchanged, and prints nothing.
C5_DuplicateChangesNothing ==
    [][ ( /\ Delivered
          /\ Len(event'.service_data) >= 14
          /\ event'.device \in DOMAIN atc_counters
          /\ atc_counters[event'.device] = event'.service_data[14] )
        => /\ atc_counters' = atc_counters
           /\ atc_date' = atc_date
           /\ atc_devices' = atc_devices
           /\ lines' = <<>> ]_vars

\* a duplicate that advertises a name other than the stored one was handled
C5_Witness ==
    /\ Len(event.service_data) >= 14
    /\ event.device \in DOMAIN atc_counters
    /\ atc_counters[event.device] = event.service_data[14]
    /\ ~reading.updated
    /\ lines = <<>>
    /\ Truthy(event.local_name)
    /\ atc_devices[event.device].name # event.local_name

\* C6: once an address is registered, a later advertisement of that address,
\* with or without a local name, the same name or another, changes neither
\* its slot id nor its stored name and registers no device.
C6_RegistrationIdempotent ==
    [][ (Delivered /\ event'.device \in DOMAIN atc_devices)
        => atc_devices' = atc_devices ]_vars

\* a registered address under a synthetic name was updated by an
\* advertisement carrying a local name, next to a second registered device
C6_Witness ==
    /\ reading.updated
    /\ reading.stored # {}
    /\ Truthy(event.local_name)
    /\ atc_devices[event.device].name = SyntheticName(event.device)
    /\ Cardinality(DOMAIN atc_devices) = 2

\* C8 as stated: for a payload of 14 bytes or more, temperature and
\* humidity (hundredths) lie in [-32768, 32767] and battery percent lies in
\* [0, 100].
C8_FieldsInDocumentedRange ==
    (reading.updated /\ Len(event.service_data) >= 14)
    => /\ reading.temp \in -32768..32767
       /\ reading.humidity \in -32768..32767
       /\ reading.battery \in 0..100

\* C8 amended: for a payload of 14 bytes or more, temperature and humidity
\* (hundredths) lie in [-32768, 32767] and battery percent lies in [0, 255].
C8_FieldsInTypeRange ==
    (reading.updated /\ Len(event.service_data) >= 14)
    => /\ reading.temp \in -32768..32767
       /\ reading.humidity \in -32768..32767
       /\ reading.battery \in 0..255

\* the extreme values: -327.68 degrees, 327.67 percent humidity, 255 percent
C8_Witness ==
    /\ reading.updated
    /\ Len(event.service_data) >= 14
    /\ reading.temp = -32768
    /\ reading.humidity = 32767
    /\ reading.battery = 255

\* C9: for a payload b of 14 bytes or more, temperature is the signed 16-bit
\* little-endian value of b[6..7], humidity that of b[8..9], battery
\* millivolts the unsigned 16-bit little-endian value of b[10..11], battery
\* percent b[12] and sequence b[13]; no other byte has any influence.
C9_FieldsFromOffsets ==
    (reading.updated /\ Len(event.service_data) >= 14)
    => LET b == event.service_data
       IN  /\ reading.temp = Signed16(b[7], b[8])
           /\ reading.humidity = Signed16(b[9], b[10])
           /\ reading.battery_v = b[11] + 256 * b[12]
           /\ reading.battery = b[13]
           /\ reading.count = b[14]

\* -1.00 degrees decoded behind a header of 255s and before two trailing
\* bytes of 255
C9_Witness ==
    /\ reading.updated
    /\ Len(event.service_data) = 16
    /\ event.service_data[1] = 255
    /\ reading.temp = -100
    /\ reading.humidity = 32767
    /\ reading.battery_v = 65508
    /\ reading.count = 255

\* C10: on an update of an address with a previous update the duration is
\* the time since that update rounded to the nearest whole second; on the
\* first update of an address the duration is absent.
C10_DurationRounded ==
    [][ (Delivered /\ reading'.updated)
        => LET d == event'.device
           IN  IF d \in DOMAIN atc_date
               THEN LET elapsed == now - atc_date[d]
                        shown   == reading'.date_diff.seconds * TicksPerSecond
                    IN  /\ reading'.date_diff.kind = "timedelta"
                        /\ 2 * (shown - elapsed) <= TicksPerSecond
                        /\ 2 * (elapsed - shown) <= TicksPerSecond
               ELSE reading'.date_diff = NoDuration ]_vars

\* 0.75 s after the previous update the duration is one second
C10_Witness ==
    /\ reading.updated
    /\ reading.date_diff = timedelta(1)
    /\ reading.date_now = 3

(***************************************************************************)
(* Properties of the asynchronous sink.                                    *)
(***************************************************************************)
IsPrefix(s, t) == Len(s) <= Len(t) /\ SubSeq(t, 1, Len(s)) = s

\* C1: whatever the interleaving of print_value, clear and clear_lines, the
\* worker writes the strings in the order of their enqueueing: what is
\* written is always a prefix of what was enqueued.
C1_WrittenPrefixOfEnqueued == IsPrefix(written, enqueued)

\* three strings were enqueued, two of them different, and all are written
C1_Witness ==
    /\ Len(written) = 3
    /\ written[1] # written[2]
    /\ written = enqueued

\* C2: when close() returns, every string enqueued before that close() call
\* has been written and the worker has terminated.
C2_CloseFlushes ==
    \A c \in CloseCall :
        close_pc[c] = "returned"
        => worker_done /\ Len(written) >= close_mark[c]

(***************************************************************************)
(* Properties of the console window.                                       *)
(***************************************************************************)
\* C7: in a window of width and height at least 1, after any print_line
\* calls, with or without a position, the cursor satisfies
\* 0 <= x < width and 0 <= y < height.
C7_CursorInsideWindow ==
    /\ 0 <= window.pos.x /\ window.pos.x < window.width
    /\ 0 <= window.pos.y /\ window.pos.y < window.height

\* a print_line at a position left of and above the window was clipped
C7_Witness ==
    /\ printed.called
    /\ printed.arg = {[x |-> -1, y |-> -1]}
    /\ window.pos = [x |-> 0, y |-> Min(1, window.height - 1)]
    /\ window.height = 3

(***************************************************************************)
(* Properties of the window manager.                                       *)
(***************************************************************************)
\* C11: with columns the number of windows that fit side by side, the
\* window of id columns has the origin x of window 0 and an origin y one
\* cell height greater: it is one row below window 0.
C11_RowBelow ==
    LET columns == x_max_windows(manager, cell.width)
    IN  (columns >= 1 /\ 0 \in DOMAIN windows /\ columns \in DOMAIN windows)
        => /\ windows[columns].x = windows[0].x
           /\ windows[columns].y = windows[0].y + cell.height + manager.gap_y

\* C12: with ids assigned by add_window and one window size, the manager
\* never holds more windows than columns that fit times rows that fit, and
\* an add_window call made when that many are held raises the
\* out-of-bounds error and adds nothing.
C12_WithinCapacity ==
    LET capacity == x_max_windows(manager, cell.width)
                    * y_max_windows(manager, cell.height)
    IN  /\ Cardinality(DOMAIN windows) <= capacity
        /\ (added.called /\ added.held >= capacity)
           => /\ added.raised = "ValueError"
              /\ Cardinality(DOMAIN windows) = added.held

\* C18: when no column fits the terminal, add_window raises its
\* configuration error for every id, id 0 included, and adds no window; it
\* does not go on to compute a placement.
C18_NoColumnsRejected ==
    (added.called /\ x_max_windows(manager, cell.width) = 0)
    => /\ added.raised = "ValueError"
       /\ windows = EmptyDict

(***************************************************************************)
(* Further properties of the asynchronous sink.                            *)
(***************************************************************************)
\* a close() is called after another close() has returned
SecondClose(c) ==
    /\ close_pc[c] = "idle"
    /\ close_pc'[c] = "await worker_task"
    /\ \E d \in CloseCall : close_pc[d] = "returned"

CloseReturns(c) ==
    close_pc[c] = "await worker_task" /\ close_pc'[c] = "returned"

\* C13 as stated: a second close() returns without blocking and leaves the
\* sink as the first close() left it: no worker running, the print queue as
\* it was (empty), the written output unchanged.
C13_SecondCloseSameState ==
    [][ \A c \in CloseCall :
          /\ SecondClose(c)
             => /\ worker_done'
                /\ written' = written
                /\ print_queue' = print_queue
          /\ CloseReturns(c)
             => UNCHANGED <<worker_done, written, print_queue>> ]_vars

\* C13 amended: a second close() returns without blocking (the worker task
\* it awaits has finished) and leaves no worker running and the written
\* output unchanged, but it leaves one more exit signal on the print queue.
C13_SecondCloseKeepsOutput ==
    [][ \A c \in CloseCall :
          /\ SecondClose(c)
             => /\ worker_done'
                /\ written' = written
                /\ print_queue' = Append(print_queue, ExitSignal)
          /\ CloseReturns(c)
             => UNCHANGED <<worker_done, written, print_queue>> ]_vars

\* two close() calls have returned after a string was written, and the
\* exit signal of the second is what the print queue holds
C13_Witness ==
    /\ \E c, d \in CloseCall :
          c # d /\ close_pc[c] = "returned" /\ close_pc[d] = "returned"
    /\ worker_done
    /\ written # <<>>
    /\ print_queue = <<ExitSignal>>

\* C19: every string enqueued through print_value, clear or clear_lines is
\* eventually written by the worker, also when it is enqueued after a
\* close(): the n-th string enqueued becomes the n-th string written.
C19_EverythingWritten ==
    \A n \in 1..MaxEnqueued : (Len(enqueued) >= n) ~> (Len(written) >= n)

(***************************************************************************)
(* Further properties of the scan callback.                                *)
(***************************************************************************)
\* C14: an address whose advertisements all failed to decode (fewer than 14
\* bytes) holds no slot: an advertisement that fails to decode registers
\* no device.
C14_NoSlotWithoutDecode ==
    [][ (Delivered /\ Len(event'.service_data) < 14)
        => DOMAIN atc_devices' = DOMAIN atc_devices ]_vars

\* C17: on an update the Duration line is printed exactly when the address
\* has a previous update, whatever the time since then.
C17_DurationIffPrevious ==
    reading.updated
    => (("Duration:" \in Range(lines)) <=> (reading.stored # {}))

(***************************************************************************)
(* Further properties of the console window.                               *)
(***************************************************************************)
\* C15: the position print_line hands to the print sink is the absolute
\* screen coordinate of the clipped cursor: window origin plus cursor.
C15_AbsolutePosition ==
    printed.called
    => LET cursor == printed.value.text.prefix
       IN  printed.value.at = <<window.y + cursor[2], window.x + cursor[1]>>

\* C16: a print_line that writes at the clipped cursor (x0, y0) leaves the
\* cursor at x = 0 and y = min(y0 + line_height, height - 1); on the last
\* row it stays on the last row.
C16_CursorAdvances ==
    printed.called
    => LET x0 == printed.value.at[2]
           y0 == printed.value.at[1]
       IN  /\ 0 <= x0 /\ x0 < window.width
           /\ 0 <= y0 /\ y0 < window.height
           /\ printed.arg # {}
              => \A p \in printed.arg :
                    /\ (p.x \in 0..window.width - 1 => x0 = p.x)
                    /\ (p.y \in 0..window.height - 1 => y0 = p.y)
           /\ window.pos.x = 0
           /\ window.pos.y = IF y0 + window.line_height < window.height - 1
                             THEN y0 + window.line_height
                             ELSE window.height - 1

\* a print_line without a position wrote on the last row of a window of
\* three rows and left the cursor there
C16_Witness ==
    /\ printed.called
    /\ printed.arg = {}
    /\ window.height = 3
    /\ printed.value.at[1] = 2
    /\ window.pos = [x |-> 0, y |-> 2]

\* C21: every window that add_window has added, with the manager at the
\* origin, one window size and ids assigned by add_window, lies inside the
\* terminal: x + width <= columns of the terminal and y + height <= rows.
C21_InsideTerminal ==
    \A id \in DOMAIN windows :
        /\ windows[id].x + windows[id].width <= manager.cols
        /\ windows[id].y + windows[id].height <= manager.rows

(***************************************************************************)
(* Properties of the lock of the print sinks.                              *)
(***************************************************************************)
\* C20: two coroutines that print inside "async with sink.lock" on the same
\* sink are never inside at the same time, whether or not the sink was
\* made with a lock.
C20_MutualExclusion ==
    Cardinality({c \in Coroutine : coro[c].pc = "inside"}) <= 1

====
